---- MODULE Spec2Model ----
(***************************************************************************)
(* Model of suspect's DAG analysis engine:                                 *)
(*   - suspect/dag/visitor.py : Dispatcher, Visitor, ForwardVisitor,        *)
(*     BackwardVisitor                                                      *)
(*   - suspect/summary.py     : detect_special_structure, ModelInformation  *)
(* The bound rules of suspect.bound (initialize_bounds, propagate_bounds,   *)
(* tighten_bounds), suspect.polynomial_degree and suspect.propagation are   *)
(* imported by summary.py; they are modelled from their description in      *)
(* sections 4.3 and 4.4 of the specification.                               *)
(***************************************************************************)
EXTENDS Integers, Sequences, FiniteSets, TLC

\* ------------------------------------------------------------------ bounds
\* Largest absolute value of a declared (finite) variable or constraint bound.
MaxVal == 2
\* Largest max_iter argument explored.
MaxIter == 3

\* ------------------------------------------------------------- intervals
\* +infinity / -infinity of a Bound; finite values never reach it.
Infinity == 100 * (MaxVal + 1)

Bound(lo, hi) == [lower_bound |-> lo, upper_bound |-> hi]

Max2(a, b) == IF a >= b THEN a ELSE b

Min2(a, b) == IF a <= b THEN a ELSE b

\* a + b on extended integers (used for lower+lower and upper+upper).
ExtAdd(a, b) ==
    IF a = Infinity \/ b = Infinity THEN Infinity
    ELSE IF a = -Infinity \/ b = -Infinity THEN -Infinity
    ELSE a + b

\* Interval sum: the rule of a Sum node.
IntervalAdd(a, b) ==
    Bound(ExtAdd(a.lower_bound, b.lower_bound), ExtAdd(a.upper_bound, b.upper_bound))

\* Interval difference a - b: the algebraic inverse of the Sum rule.
IntervalSub(a, b) ==
    Bound(ExtAdd(a.lower_bound, -b.upper_bound), ExtAdd(a.upper_bound, -b.lower_bound))

\* Intersection; the result crosses (lower > upper) when a and b are disjoint.
Intersect(a, b) ==
    Bound(Max2(a.lower_bound, b.lower_bound), Min2(a.upper_bound, b.upper_bound))

\* a is a subset of (or equal to) b.
IsSubset(a, b) == a.lower_bound >= b.lower_bound /\ a.upper_bound <= b.upper_bound

\* An infeasible bound.
IsCrossed(a) == a.lower_bound > a.upper_bound

\* ------------------------------------------------- python dict / results
\* d[k] = v on a dict modelled as a function: the key is added or overwritten.
Put(d, k, v) == [j \in (DOMAIN d) \cup {k} |-> IF j = k THEN v ELSE d[j]]

\* The empty dict.
EmptyDict == <<>>

\* What a handler returns: None, a plain value, or a dict given by its items
\* in iteration order (a sequence of <<key, value>> pairs).
None == [tag |-> "None"]

Value(v) == [tag |-> "value", value |-> v]

Dict(items) == [tag |-> "dict", items |-> items]

\* --------------------------------------------------------- node kinds
\* The direct superclass of an expression class (isinstance follows it):
\* Sqrt, Log, Asin and Acos are UnaryFunctions, every other class derives from
\* Expression.
SuperClass(k) ==
    IF k \in {"Sqrt", "Log", "Asin", "Acos"} THEN "UnaryFunction" ELSE "Expression"

RECURSIVE SuperTypes(_)
\* The proper supertypes of kind k.
SuperTypes(k) == IF k = "Expression" THEN {} ELSE {SuperClass(k)} \cup SuperTypes(SuperClass(k))

\* isinstance(expr, target_type) for an expr of kind k.
IsInstance(k, target_type) == target_type = k \/ target_type \in SuperTypes(k)

\* The value standing for "no callback found".
NoHandler == "NoHandler"

\* A handler table is the sequence of the kinds registered, in the order
\* dict.items() yields them; the handler is named by the kind it is registered for.
Registered(lookup) == {lookup[j] : j \in 1..Len(lookup)}

\* First entry of lookup.items() whose kind the node is an instance of.
FirstInstance(lookup, k) ==
    LET hits == {j \in 1..Len(lookup) : IsInstance(k, lookup[j])}
    IN IF hits = {} THEN NoHandler
       ELSE lookup[CHOOSE j \in hits : \A m \in hits : j <= m]

\* Mutant: the superclass scan runs without the exact-kind lookup before it.
DispatchScansOnly(lookup, allow_missing, k) ==
    IF FirstInstance(lookup, k) # NoHandler
    THEN [handler |-> FirstInstance(lookup, k), raised |-> FALSE]
    ELSE [handler |-> NoHandler, raised |-> ~allow_missing]

\* Mutant: a missing callback raises whatever allow_missing says.
DispatchAlwaysRaises(lookup, allow_missing, k) ==
    IF k \in Registered(lookup)
    THEN [handler |-> k, raised |-> FALSE]
    ELSE IF FirstInstance(lookup, k) # NoHandler
    THEN [handler |-> FirstInstance(lookup, k), raised |-> FALSE]
    ELSE [handler |-> NoHandler, raised |-> TRUE]

\* Dispatcher.dispatch: the callback invoked, and whether RuntimeError is raised.
Dispatch(lookup, allow_missing, k) ==
    IF k \in Registered(lookup)
    THEN [handler |-> k, raised |-> FALSE]
    ELSE IF FirstInstance(lookup, k) # NoHandler
    THEN [handler |-> FirstInstance(lookup, k), raised |-> FALSE]
    ELSE [handler |-> NoHandler, raised |-> ~allow_missing]

\* Mutant: the callback left over from the scan of the registered handlers is
\* invoked when none of them applies.
VisitCallsLastScanned(handlers, k) ==
    IF k \in Registered(handlers) THEN k
    ELSE IF FirstInstance(handlers, k) # NoHandler THEN FirstInstance(handlers, k)
    ELSE IF handlers = <<>> THEN NoHandler
    ELSE handlers[Len(handlers)]

\* Visitor.visit: the callback invoked (NoHandler: falls through, returns None).
Visit(handlers, k) ==
    IF k \in Registered(handlers) THEN k ELSE FirstInstance(handlers, k)

\* Mutant: the result is stored without the test for None.
ForwardVisitorCallStoresNone(ctx, expr, result) ==
    IF result.tag # "None" THEN Put(ctx, expr, result.value) ELSE Put(ctx, expr, "None")

\* ForwardVisitor.__call__: ctx after the call, given what visit returned.
ForwardVisitorCall(ctx, expr, result) ==
    IF result.tag # "None" THEN Put(ctx, expr, result.value) ELSE ctx

\* The merge callback handle_result of the bound-tightening visitor:
\* intersect the candidate into the existing bound of expr.
HandleResult(ctx, expr, result) ==
    IF expr \in DOMAIN ctx THEN Put(ctx, expr, Intersect(ctx[expr], result))
    ELSE Put(ctx, expr, result)

RECURSIVE MergeItems(_, _, _)
\* for k, v in result.items(): self.handle_result(k, v, ctx), from item j on.
MergeItems(ctx, items, j) ==
    IF j > Len(items) THEN ctx
    ELSE MergeItems(HandleResult(ctx, items[j][1], items[j][2]), items, j + 1)

RECURSIVE StoreItems(_, _, _)
\* ctx[k] = v for every item, from item j on.
StoreItems(ctx, items, j) ==
    IF j > Len(items) THEN ctx
    ELSE StoreItems(Put(ctx, items[j][1], items[j][2]), items, j + 1)

\* Mutant: the mapping is written into the context (ctx.update(result)) and
\* the merge callback is left out.
BackwardVisitorCallUpdates(ctx, result) ==
    IF result.tag = "dict"
    THEN [ctx |-> StoreItems(ctx, result.items, 1), calls |-> <<>>, raised |-> FALSE]
    ELSE IF result.tag # "None"
    THEN [ctx |-> ctx, calls |-> <<>>, raised |-> TRUE]
    ELSE [ctx |-> ctx, calls |-> <<>>, raised |-> FALSE]

\* Mutant: a result that is not a mapping is dropped like None.
BackwardVisitorCallDropsMalformed(ctx, result) ==
    IF result.tag = "dict"
    THEN [ctx |-> MergeItems(ctx, result.items, 1), calls |-> result.items, raised |-> FALSE]
    ELSE [ctx |-> ctx, calls |-> <<>>, raised |-> FALSE]

\* BackwardVisitor.__call__, given what visit returned: the context afterwards,
\* the handle_result calls made (in order), and whether RuntimeError is raised.
BackwardVisitorCall(ctx, result) ==
    IF result.tag = "dict"
    THEN [ctx |-> MergeItems(ctx, result.items, 1), calls |-> result.items, raised |-> FALSE]
    ELSE IF result.tag # "None"
    THEN [ctx |-> ctx, calls |-> <<>>, raised |-> TRUE]
    ELSE [ctx |-> ctx, calls |-> <<>>, raised |-> FALSE]

\* ------------------------------------------------------ the problem DAG
\* Arena of the analysed problem:  c: lower <= x + y <= upper,  objectives
\* min x + y (o) and max x + y (o2).
X == "x"
Y == "y"
S == "s"
C == "c"
O == "o"
O2 == "o2"

Nodes == {X, Y, S, C, O, O2}

KindOf(n) ==
    CASE n \in {X, Y} -> "Variable"
      [] n = S -> "Sum"
      [] n = C -> "Constraint"
      [] n \in {O, O2} -> "Objective"

Children(n) ==
    CASE n \in {X, Y} -> <<>>
      [] n = S -> <<X, Y>>
      [] n \in {C, O, O2} -> <<S>>

\* Children before parents (forward passes); its reverse is the backward order.
TopoOrder == <<X, Y, S, C, O, O2>>

ReverseOrder == [j \in 1..Len(TopoOrder) |-> TopoOrder[Len(TopoOrder) + 1 - j]]

\* Declared bounds the converter may hand over.
FiniteVals == (-MaxVal)..MaxVal

VarDecls ==
    [domain : {"continuous", "integer"}, lower_bound : {-Infinity, 0}, upper_bound : {MaxVal, Infinity}]
    \cup {[domain |-> "binary", lower_bound |-> 0, upper_bound |-> 1]}

ConsDecls ==
    {d \in [lower_bound : FiniteVals \cup {-Infinity}, upper_bound : FiniteVals \cup {Infinity}] :
        d.lower_bound <= d.upper_bound}

\* ------------------------------------------------ suspect.bound (sec. 4.3)
\* initialize_bounds: variables from their domain, constraints from their
\* declared bounds; every other node starts without a bound.
InitializeBounds(p) ==
    [n \in {X, Y, C} |->
        IF n = C THEN Bound(p.cons.lower_bound, p.cons.upper_bound)
        ELSE IF p.var[n].domain = "binary" THEN Bound(0, 1)
        ELSE Bound(p.var[n].lower_bound, p.var[n].upper_bound)]

\* The bound strictly shrank (a first bound counts as a shrink from unknown).
StrictlyShrank(old, new, n) ==
    IF n \notin DOMAIN new THEN FALSE
    ELSE IF n \notin DOMAIN old THEN TRUE
    ELSE new[n] # old[n] /\ IsSubset(new[n], old[n])

\* Handlers of the propagation (forward) visitor, as registered.
PropagationHandlers == <<"Variable", "Sum", "Constraint", "Objective">>

\* The forward rule of handler h at node n: the node's bound from its children's.
PropagationRule(h, n, p, ctx) ==
    CASE h = "Sum" -> Value(IntervalAdd(ctx[Children(n)[1]], ctx[Children(n)[2]]))
      [] h = "Constraint" ->
            Value(Intersect(ctx[Children(n)[1]], Bound(p.cons.lower_bound, p.cons.upper_bound)))
      [] h = "Objective" -> Value(ctx[Children(n)[1]])
      [] OTHER -> None

RECURSIVE PropagateFrom(_, _, _, _)
\* The forward pass from position j of the topological order on.
PropagateFrom(j, p, ctx, changes) ==
    IF j > Len(TopoOrder) THEN [ctx |-> ctx, changes |-> changes]
    ELSE LET n == TopoOrder[j]
             h == Visit(PropagationHandlers, KindOf(n))
             result == IF h = NoHandler THEN None ELSE PropagationRule(h, n, p, ctx)
             after == ForwardVisitorCall(ctx, n, result)
         IN PropagateFrom(j + 1, p, after,
                IF result.tag # "None" /\ StrictlyShrank(ctx, after, n)
                THEN changes \cup {n} ELSE changes)

\* propagate_bounds(problem, ctx, starting): one full forward pass.
PropagateBounds(p, ctx) == PropagateFrom(1, p, ctx, {})

\* Handlers of the tightening (backward) visitor; variables have none.
TighteningHandlers == <<"Sum", "Constraint", "Objective">>

\* The backward rule of handler h at node n: candidates for the children.
TighteningRule(h, n, ctx) ==
    IF n \notin DOMAIN ctx THEN None
    ELSE CASE h = "Sum" ->
                Dict(<< <<Children(n)[1], IntervalSub(ctx[n], ctx[Children(n)[2]])>>,
                        <<Children(n)[2], IntervalSub(ctx[n], ctx[Children(n)[1]])>> >>)
           [] h \in {"Constraint", "Objective"} -> Dict(<< <<Children(n)[1], ctx[n]>> >>)
           [] OTHER -> None

RECURSIVE TightenFrom(_, _, _)
\* The backward pass from position j of the reverse order on.
TightenFrom(j, ctx, changes) ==
    IF j > Len(ReverseOrder) THEN [ctx |-> ctx, changes |-> changes]
    ELSE LET n == ReverseOrder[j]
             h == Visit(TighteningHandlers, KindOf(n))
             result == IF h = NoHandler THEN None ELSE TighteningRule(h, n, ctx)
             after == BackwardVisitorCall(ctx, result).ctx
         IN TightenFrom(j + 1, after,
                changes \cup {m \in Nodes : StrictlyShrank(ctx, after, m)})

\* tighten_bounds(problem, ctx, starting): one full backward pass.
TightenBounds(ctx) == TightenFrom(1, ctx, {})

\* ------------------------- suspect.polynomial_degree, suspect.propagation
RECURSIVE DegreeFrom(_, _)
\* polynomial_degree: leaves 0, Sum the max of its children, roots their child's.
DegreeFrom(j, acc) ==
    IF j > Len(TopoOrder) THEN acc
    ELSE LET n == TopoOrder[j]
             ch == Children(n)
             d == CASE KindOf(n) = "Variable" -> 0
                    [] KindOf(n) = "Sum" -> Max2(acc[ch[1]], acc[ch[2]])
                    [] OTHER -> acc[ch[1]]
         IN DegreeFrom(j + 1, Put(acc, n, d))

PolynomialDegree == DegreeFrom(1, EmptyDict)

\* Convexity of a sum from the convexity of its two terms.
SumConvexity(a, b) ==
    IF a = "linear" THEN b
    ELSE IF b = "linear" \/ a = b THEN a
    ELSE "unknown"

RECURSIVE ConvexityFrom(_, _)
\* propagate_special_structure: leaves linear, composites by composition.
ConvexityFrom(j, acc) ==
    IF j > Len(TopoOrder) THEN acc
    ELSE LET n == TopoOrder[j]
             ch == Children(n)
             v == CASE KindOf(n) = "Variable" -> "linear"
                    [] KindOf(n) = "Sum" -> SumConvexity(acc[ch[1]], acc[ch[2]])
                    [] OTHER -> acc[ch[1]]
         IN ConvexityFrom(j + 1, Put(acc, n, v))

PropagateSpecialStructure == ConvexityFrom(1, EmptyDict)

\* ------------------------------------------------ summary assembly
\* One store into a mapping of the report: the key written, whether the mapping
\* held an entry under it, the name the loop's duplicate test was made on and
\* whether that iteration warned.
Write(family, key, entries, tested, warned) ==
    [family |-> family, key |-> key, overwrote |-> key \in DOMAIN entries,
     tested |-> tested, warned |-> warned]

\* The variables loop of detect_special_structure, from item j on.
RECURSIVE VariablesFrom(_, _, _, _)
VariablesFrom(j, items, bnd, acc) ==
    IF j > Len(items) THEN acc
    ELSE LET it == items[j]
             variable_type ==
                 IF it.domain = "binary" THEN "binary"
                 ELSE IF it.domain = "integer" THEN "integer"
                 ELSE "continuous"
             var_bounds == bnd[it.node]
             warned == IF it.name \in DOMAIN acc.entries
                       THEN Append(acc.warnings, <<"Duplicate variable", it.name>>)
                       ELSE acc.warnings
             entry == [name |-> it.key, type |-> variable_type,
                       lower_bound |-> var_bounds.lower_bound,
                       upper_bound |-> var_bounds.upper_bound]
         IN VariablesFrom(j + 1, items, bnd,
                [entries |-> Put(acc.entries, it.key, entry), warnings |-> warned,
                 writes |-> Append(acc.writes,
                               Write("variables", it.key, acc.entries, it.name,
                                     warned # acc.warnings))])

\* The objectives loop, from item j on.
RECURSIVE ObjectivesFrom(_, _, _, _, _, _)
ObjectivesFrom(j, items, bnd, cvxs, polys, acc) ==
    IF j > Len(items) THEN acc
    ELSE LET it == items[j]
             warned == IF it.key \in DOMAIN acc.entries
                       THEN Append(acc.warnings, <<"Duplicate objective", it.key>>)
                       ELSE acc.warnings
             sense == IF it.minimizing THEN "min" ELSE "max"
             obj_bounds == IF it.node \in DOMAIN bnd THEN bnd[it.node] ELSE Bound("None", "None")
             entry == [sense |-> sense, convexity |-> cvxs[it.node],
                       polynomial_degree |-> polys[it.node],
                       lower_bound |-> obj_bounds.lower_bound,
                       upper_bound |-> obj_bounds.upper_bound]
         IN ObjectivesFrom(j + 1, items, bnd, cvxs, polys,
                [entries |-> Put(acc.entries, it.name, entry), warnings |-> warned,
                 writes |-> Append(acc.writes,
                               Write("objectives", it.name, acc.entries, it.key,
                                     warned # acc.warnings))])

\* The constraints loop, from item j on.
RECURSIVE ConstraintsFrom(_, _, _, _, _)
ConstraintsFrom(j, items, cvxs, polys, acc) ==
    IF j > Len(items) THEN acc
    ELSE LET it == items[j]
             warned == IF it.key \in DOMAIN acc.entries
                       THEN Append(acc.warnings, <<"Duplicate constraint", it.key>>)
                       ELSE acc.warnings
             type_ == IF it.equality THEN "equality" ELSE "inequality"
             entry == [type |-> type_, convexity |-> cvxs[it.node],
                       polynomial_degree |-> polys[it.node]]
         IN ConstraintsFrom(j + 1, items, cvxs, polys,
                [entries |-> Put(acc.entries, it.key, entry), warnings |-> warned,
                 writes |-> Append(acc.writes,
                               Write("constraints", it.key, acc.entries, it.key,
                                     warned # acc.warnings))])

RECURSIVE SummaryBoundSetsDefault(_, _, _)
\* Mutant: the objectives loop looks the bound up with setdefault, which stores
\* the absent bound it falls back to.
SummaryBoundSetsDefault(j, items, bnd) ==
    IF j > Len(items) THEN bnd
    ELSE SummaryBoundSetsDefault(j + 1, items,
             IF items[j].node \in DOMAIN bnd THEN bnd
             ELSE Put(bnd, items[j].node, Bound("None", "None")))

\* ctx.bound after the objectives loop from item j on: the loop reads it with
\* ctx.bound.get(obj, Bound(None, None)) and stores nothing.
SummaryBound(j, items, bnd) == bnd

\* ------------------------------------------- detect_special_structure
VARIABLES
    problem,        \* the Problem DAG's declarations (input)
    max_iter,       \* the max_iter argument
    pc,             \* position in detect_special_structure
    i,              \* index of the for loop
    bound,          \* ctx.bound
    convexity,      \* ctx.convexity
    polynomial,     \* the degree map returned by polynomial_degree
    changes_prop,   \* change set returned by the last propagate_bounds
    changes_tigh,   \* change set returned by the last tighten_bounds (None at first)
    report,         \* the ModelInformation returned
    warnings,       \* warnings.warn calls so far
    roundLog,       \* history: per completed round, its change sets and ctx.bound after it
    beforeProp,     \* history: ctx.bound when the last propagate_bounds started
    writes,         \* history: the stores the summary loops made into the report
    steps,          \* history: calls and loop tests executed so far
    calls,          \* history: the passes called so far, each with the change set
                    \* handed to it and the one it returned
    lookup,         \* a Dispatcher's / Visitor's handler table, in items() order
    allow_missing,  \* the Dispatcher's allow_missing flag
    vctx,           \* the context handed to a visitor call
    last            \* history: the last dispatch / visitor call and its outcome

runVars == <<problem, max_iter, pc, i, bound, convexity, polynomial, changes_prop,
             changes_tigh, report, warnings, roundLog, beforeProp, steps, calls, writes>>

visitVars == <<lookup, allow_missing, vctx, last>>

vars == <<runVars, visitVars>>

\* A change set that is None (no set was given).
NoChanges == [none |-> TRUE, nodes |-> {}]

Changes(ns) == [none |-> FALSE, nodes |-> ns]

NoReport == [name |-> "None"]

\* One call of a pass by detect_special_structure.
Call(op, arg, ret) == [op |-> op, arg |-> arg, ret |-> ret]

\* No dispatch or visitor call has been made.
NoCall == [op |-> "none"]

\* The problem with declarations dx, dy, dc, whose variables, objectives and
\* constraint are registered under the keys x, y, obj, obj2, cons and carry the
\* names nx, ny, n1, n2, nc.
Problem(dx, dy, dc, nx, ny, n1, n2, nc) ==
    [name |-> "problem",
     var |-> [n \in {X, Y} |-> IF n = X THEN dx ELSE dy],
     cons |-> dc,
     variables |-> <<[key |-> "x", name |-> nx, node |-> X, domain |-> dx.domain],
                     [key |-> "y", name |-> ny, node |-> Y, domain |-> dy.domain]>>,
     objectives |-> <<[key |-> "obj", name |-> n1, node |-> O, minimizing |-> TRUE],
                      [key |-> "obj2", name |-> n2, node |-> O2, minimizing |-> FALSE]>>,
     constraints |-> <<[key |-> "cons", name |-> nc, node |-> C,
                        equality |-> dc.lower_bound = dc.upper_bound]>>]

\* Problems whose entries are registered under their own names.
Problems ==
    {Problem(dx, dy, dc, "x", "y", "obj", "obj2", "cons") :
        dx \in VarDecls, dy \in VarDecls, dc \in ConsDecls}

\* Problems whose entries carry any names, equal to their keys or not, repeated
\* or not.
NamedProblems ==
    {Problem(dx, dx, dc, nx, ny, n1, n2, nc) :
        dx \in {d \in VarDecls : d.domain # "continuous"},
        dc \in {d \in ConsDecls : d.lower_bound = 0 /\ d.upper_bound >= MaxVal},
        nx \in {"x", "y"}, ny \in {"x", "y"},
        n1 \in {"obj", "obj2"}, n2 \in {"obj", "obj2"}, nc \in {"cons", "obj"}}


Init ==
    /\ problem \in Problems
    /\ max_iter \in 0..MaxIter
    /\ pc = "start"
    /\ i = 0
    /\ bound = EmptyDict
    /\ convexity = EmptyDict
    /\ polynomial = EmptyDict
    /\ changes_prop = NoChanges
    /\ changes_tigh = NoChanges
    /\ report = NoReport
    /\ warnings = <<>>
    /\ roundLog = <<>>
    /\ beforeProp = EmptyDict
    /\ steps = 0
    /\ calls = <<>>
    /\ writes = <<>>
    /\ lookup = <<>>
    /\ allow_missing = FALSE
    /\ vctx = EmptyDict
    /\ last = NoCall

\* Runs of detect_special_structure on problems whose names need not be keys.
InitNamed ==
    /\ problem \in NamedProblems
    /\ max_iter \in 0..MaxIter
    /\ pc = "start"
    /\ i = 0
    /\ bound = EmptyDict
    /\ convexity = EmptyDict
    /\ polynomial = EmptyDict
    /\ changes_prop = NoChanges
    /\ changes_tigh = NoChanges
    /\ report = NoReport
    /\ warnings = <<>>
    /\ roundLog = <<>>
    /\ beforeProp = EmptyDict
    /\ steps = 0
    /\ calls = <<>>
    /\ writes = <<>>
    /\ lookup = <<>>
    /\ allow_missing = FALSE
    /\ vctx = EmptyDict
    /\ last = NoCall

\* Mutant: propagate_bounds is handed the change set of the propagate before it.
PropagateStartOwn(cp, ct) == cp

\* The starting set handed to propagate_bounds: changes_tigh.
PropagateStart(cp, ct) == ct

\* The starting set handed to tighten_bounds: changes_prop.
TightenStart(cp, ct) == cp

\* Mutant: an exhausted loop goes on with convexity inference, degree inference
\* left for later.
LoopHeadSkipsDegree(k, n) == IF k < n THEN "propagate" ELSE "convexity"

\* Mutant: reaching the cap is treated as a failure to converge.
LoopHeadRaisesAtCap(k, n) == IF k < n THEN "propagate" ELSE IF n > 0 THEN "error" ELSE "degree"

\* for i in range(max_iter): enter the body, or leave the loop when exhausted.
LoopHead(k, n) == IF k < n THEN "propagate" ELSE "degree"

\* Mutant: break as soon as either change set is empty.
LoopBreaksOnEither(cp, ct) == cp = {} \/ ct = {}

\* if len(changes_tigh) == 0 and len(changes_prop) == 0: break
LoopBreaks(cp, ct) == cp = {} /\ ct = {}

\* ctx = initialize_bounds(problem); changes_tigh = None
DoInitialize ==
    /\ pc = "start"
    /\ steps' = steps + 1
    /\ writes' = writes
    /\ calls' = Append(calls, Call("initialize", NoChanges, {}))
    /\ bound' = InitializeBounds(problem)
    /\ changes_tigh' = NoChanges
    /\ pc' = "loop"
    /\ UNCHANGED visitVars
    /\ UNCHANGED <<problem, max_iter, i, convexity, polynomial, changes_prop, report,
                   warnings, roundLog, beforeProp>>

DoLoopHead ==
    /\ pc = "loop"
    /\ steps' = steps + 1
    /\ writes' = writes
    /\ calls' = calls
    /\ pc' = LoopHead(i, max_iter)
    /\ UNCHANGED visitVars
    /\ UNCHANGED <<problem, max_iter, i, bound, convexity, polynomial, changes_prop,
                   changes_tigh, report, warnings, roundLog, beforeProp>>

\* changes_prop = propagate_bounds(problem, ctx, changes_tigh)
DoPropagate ==
    /\ pc = "propagate"
    /\ steps' = steps + 1
    /\ writes' = writes
    /\ calls' = Append(calls, Call("propagate", PropagateStart(changes_prop, changes_tigh),
                                    PropagateBounds(problem, bound).changes))
    /\ LET r == PropagateBounds(problem, bound)
       IN /\ bound' = r.ctx
          /\ changes_prop' = Changes(r.changes)
    /\ beforeProp' = bound
    /\ pc' = "tighten"
    /\ UNCHANGED visitVars
    /\ UNCHANGED <<problem, max_iter, i, convexity, polynomial, changes_tigh, report,
                   warnings, roundLog>>

\* changes_tigh = tighten_bounds(problem, ctx, changes_prop), then the break test.
DoTighten ==
    /\ pc = "tighten"
    /\ steps' = steps + 1
    /\ writes' = writes
    /\ calls' = Append(calls, Call("tighten", TightenStart(changes_prop, changes_tigh),
                                    TightenBounds(bound).changes))
    /\ LET r == TightenBounds(bound)
       IN /\ bound' = r.ctx
          /\ changes_tigh' = Changes(r.changes)
          /\ roundLog' = Append(roundLog, [prop |-> changes_prop.nodes, tigh |-> r.changes,
                                               bound |-> r.ctx])
          /\ IF LoopBreaks(changes_prop.nodes, r.changes)
             THEN pc' = "degree" /\ i' = i
             ELSE pc' = "loop" /\ i' = i + 1
    /\ UNCHANGED visitVars
    /\ UNCHANGED <<problem, max_iter, convexity, polynomial, changes_prop, report,
                   warnings, beforeProp>>

\* polynomial = polynomial_degree(problem, ctx)
DoDegree ==
    /\ pc = "degree"
    /\ steps' = steps + 1
    /\ writes' = writes
    /\ calls' = Append(calls, Call("degree", NoChanges, {}))
    /\ polynomial' = PolynomialDegree
    /\ pc' = "convexity"
    /\ UNCHANGED visitVars
    /\ UNCHANGED <<problem, max_iter, i, bound, convexity, changes_prop, changes_tigh,
                   report, warnings, roundLog, beforeProp>>

\* monotonicity, convexity = propagate_special_structure(problem, ctx)
DoConvexity ==
    /\ pc = "convexity"
    /\ steps' = steps + 1
    /\ writes' = writes
    /\ calls' = Append(calls, Call("convexity", NoChanges, {}))
    /\ convexity' = PropagateSpecialStructure
    /\ pc' = "summary"
    /\ UNCHANGED visitVars
    /\ UNCHANGED <<problem, max_iter, i, bound, polynomial, changes_prop, changes_tigh,
                   report, warnings, roundLog, beforeProp>>

\* The three loops of the summary and the ModelInformation returned.
DoSummary ==
    /\ pc = "summary"
    /\ steps' = steps + 1
    /\ calls' = Append(calls, Call("summary", NoChanges, {}))
    /\ LET empty == [entries |-> EmptyDict, warnings |-> warnings, writes |-> writes]
           vs == VariablesFrom(1, problem.variables, bound, empty)
           os == ObjectivesFrom(1, problem.objectives, bound, convexity, polynomial,
                                [entries |-> EmptyDict, warnings |-> vs.warnings,
                                 writes |-> vs.writes])
           cs == ConstraintsFrom(1, problem.constraints, convexity, polynomial,
                                 [entries |-> EmptyDict, warnings |-> os.warnings,
                                  writes |-> os.writes])
       IN /\ report' = [name |-> problem.name, variables |-> vs.entries,
                        objectives |-> os.entries, constraints |-> cs.entries]
          /\ warnings' = cs.warnings
          /\ writes' = cs.writes
    /\ pc' = "done"
    /\ UNCHANGED visitVars
    /\ bound' = SummaryBound(1, problem.objectives, bound)
    /\ UNCHANGED <<problem, max_iter, i, convexity, polynomial, changes_prop,
                   changes_tigh, roundLog, beforeProp>>

Next ==
    \/ DoInitialize
    \/ DoLoopHead
    \/ DoPropagate
    \/ DoTighten
    \/ DoDegree
    \/ DoConvexity
    \/ DoSummary

Spec == Init /\ [][Next]_vars

SpecNamed == InitNamed /\ [][Next]_vars

\* ----------------------------------- dispatch and visitor calls in isolation
\* Most handlers a table holds.
MaxHandlers == 3

\* The kinds handlers are registered for.
RegKinds == {"Expression", "UnaryFunction", "Sqrt", "Variable"}

\* The nodes visited, and their kinds.
VisitNodes == {"p", "q", "r"}

VisitKind(n) ==
    CASE n = "p" -> "Sqrt"
      [] n = "q" -> "Variable"
      [] n = "r" -> "Sum"

\* Handler tables: the registered kinds in every iteration order.
Lookups ==
    {l \in UNION {[1..m -> RegKinds] : m \in 0..MaxHandlers} :
        \A a, b \in 1..Len(l) : a # b => l[a] # l[b]}

\* Values handlers produce and contexts hold.
VisitValues == {Bound(0, 1), Bound(1, 2)}

\* Contexts a caller may pass: any nodes, any values.
Contexts == UNION {[ns -> VisitValues] : ns \in SUBSET VisitNodes}

\* Mappings a backward handler may return, by their items in order.
Mappings ==
    {<<>>}
    \cup {<< <<n, v>> >> : n \in VisitNodes, v \in VisitValues}
    \cup {<< <<n, v>>, <<m, w>> >> : n \in {"q"}, m \in {"r"}, v \in VisitValues, w \in VisitValues}
    \cup {<< <<n, v>>, <<m, w>> >> : n \in {"r"}, m \in {"q"}, v \in VisitValues, w \in VisitValues}

InitVisit ==
    /\ lookup \in Lookups
    /\ allow_missing \in BOOLEAN
    /\ vctx \in Contexts
    /\ last = NoCall
    /\ problem = CHOOSE pr \in Problems : TRUE
    /\ max_iter = 0
    /\ pc = "idle"
    /\ i = 0
    /\ bound = EmptyDict
    /\ convexity = EmptyDict
    /\ polynomial = EmptyDict
    /\ changes_prop = NoChanges
    /\ changes_tigh = NoChanges
    /\ report = NoReport
    /\ warnings = <<>>
    /\ roundLog = <<>>
    /\ beforeProp = EmptyDict
    /\ steps = 0
    /\ calls = <<>>
    /\ writes = <<>>

\* dispatcher.dispatch(expr), the callback returning r.
CallDispatch ==
    /\ last.op = "none"
    /\ \E expr \in VisitNodes, r \in {None} \cup {Value(v) : v \in VisitValues} :
        LET d == Dispatch(lookup, allow_missing, VisitKind(expr))
        IN last' = [op |-> "dispatch", expr |-> expr,
                    invoked |-> IF d.handler = NoHandler THEN <<>> ELSE <<d.handler>>,
                    result |-> IF d.handler = NoHandler THEN None ELSE r,
                    raised |-> d.raised, merges |-> <<>>, before |-> vctx]
    /\ UNCHANGED <<lookup, allow_missing, vctx>>
    /\ UNCHANGED runVars

\* forward_visitor(expr, ctx), the handler returning r.
CallForward ==
    /\ last.op = "none"
    /\ \E expr \in VisitNodes, r \in {None} \cup {Value(v) : v \in VisitValues} :
        LET h == Visit(lookup, VisitKind(expr))
            result == IF h = NoHandler THEN None ELSE r
        IN /\ vctx' = ForwardVisitorCall(vctx, expr, result)
           /\ last' = [op |-> "forward", expr |-> expr,
                       invoked |-> IF h = NoHandler THEN <<>> ELSE <<h>>,
                       result |-> result, raised |-> FALSE, merges |-> <<>>,
                       before |-> vctx]
    /\ UNCHANGED <<lookup, allow_missing>>
    /\ UNCHANGED runVars

\* backward_visitor(expr, ctx), the handler returning r.
CallBackward ==
    /\ last.op = "none"
    /\ \E expr \in VisitNodes,
          r \in {None} \cup {Value(v) : v \in VisitValues} \cup {Dict(m) : m \in Mappings} :
        LET h == Visit(lookup, VisitKind(expr))
            result == IF h = NoHandler THEN None ELSE r
            b == BackwardVisitorCall(vctx, result)
        IN /\ vctx' = b.ctx
           /\ last' = [op |-> "backward", expr |-> expr,
                       invoked |-> IF h = NoHandler THEN <<>> ELSE <<h>>,
                       result |-> result, raised |-> b.raised, merges |-> b.calls,
                       before |-> vctx]
    /\ UNCHANGED <<lookup, allow_missing>>
    /\ UNCHANGED runVars

NextVisit ==
    \/ CallDispatch
    \/ CallForward
    \/ CallBackward

SpecVisit == InitVisit /\ [][NextVisit]_vars

\* ------------------------------------------ BoundsInitializationVisitor
\* The kinds of root the initialization visitor restricts the argument of.
RootKinds == {"Sqrt", "Log", "Asin", "Acos"}

\* Handlers of the initialization visitor, a backward visitor.
InitializationHandlers == <<"Sqrt", "Log", "Asin", "Acos">>

\* The domain of the function of kind h: what its argument is restricted to.
DomainOf(h) == IF h \in {"Sqrt", "Log"} THEN Bound(0, Infinity) ELSE Bound(-1, 1)

\* The handler of kind h at a root whose only child is child: a mapping from
\* the child to the domain.
InitializationRule(h, child) == Dict(<< <<child, DomainOf(h)>> >>)

\* Any context, before the root is visited.
InitSeed ==
    /\ vctx \in Contexts
    /\ last = NoCall
    /\ lookup = InitializationHandlers
    /\ allow_missing = FALSE
    /\ problem = CHOOSE pr \in Problems : TRUE
    /\ max_iter = 0
    /\ pc = "idle"
    /\ i = 0
    /\ bound = EmptyDict
    /\ convexity = EmptyDict
    /\ polynomial = EmptyDict
    /\ changes_prop = NoChanges
    /\ changes_tigh = NoChanges
    /\ report = NoReport
    /\ warnings = <<>>
    /\ roundLog = <<>>
    /\ beforeProp = EmptyDict
    /\ steps = 0
    /\ calls = <<>>
    /\ writes = <<>>

\* visitor.visit(root, ctx) for root = root_cls([child]), as _visit of
\* tests/fbbt/test_initialization.py calls it: visit returns what the handler
\* returned.
VisitRoot ==
    /\ last.op = "none"
    /\ \E kind \in RootKinds, child \in VisitNodes :
        LET h == Visit(lookup, kind)
            result == IF h = NoHandler THEN None ELSE InitializationRule(h, child)
        IN /\ vctx' = vctx
           /\ last' = [op |-> "visit", kind |-> kind, child |-> child,
                       invoked |-> IF h = NoHandler THEN <<>> ELSE <<h>>,
                       result |-> result, raised |-> FALSE, merges |-> <<>>,
                       before |-> vctx]
    /\ UNCHANGED <<lookup, allow_missing>>
    /\ UNCHANGED runVars

\* visitor(root, ctx) for root = root_cls([child]): BackwardVisitor.__call__.
CallRoot ==
    /\ last.op = "none"
    /\ \E kind \in RootKinds, child \in VisitNodes :
        LET h == Visit(lookup, kind)
            result == IF h = NoHandler THEN None ELSE InitializationRule(h, child)
            b == BackwardVisitorCall(vctx, result)
        IN /\ vctx' = b.ctx
           /\ last' = [op |-> "call", kind |-> kind, child |-> child,
                       invoked |-> IF h = NoHandler THEN <<>> ELSE <<h>>,
                       result |-> result, raised |-> b.raised, merges |-> b.calls,
                       before |-> vctx]
    /\ UNCHANGED <<lookup, allow_missing>>
    /\ UNCHANGED runVars

NextSeed ==
    \/ VisitRoot
    \/ CallRoot

SpecSeed == InitSeed /\ [][NextSeed]_vars

\* ------------------------------------------------ ModelInformation
\* Largest finite polynomial degree of an objective entry.
MaxDegree == 3

\* The convexity classes.
Convexities == {"linear", "convex", "concave", "unknown"}

\* The non-polynomial degree, top of the degree order.
NonPolynomial == Infinity

Degrees == 0..MaxDegree \cup {NonPolynomial}

\* Convexity.is_linear()
CvxIsLinear(cvx) == cvx = "linear"

\* PolynomialDegree.is_linear()
DegIsLinear(deg) == deg = 1

\* PolynomialDegree.is_quadratic()
DegIsQuadratic(deg) == deg = 2

\* PolynomialDegree.is_polynomial(), as objtype uses it after the quadratic test.
DegIsPolynomial(deg) == deg > 2 /\ deg < NonPolynomial

\* _objtype(v) of ModelInformation.objtype for an entry of convexity cvx and
\* degree deg; asserts tells whether assert statements are executed (they are
\* not under python -O).
ObjType(cvx, deg, asserts) ==
    IF CvxIsLinear(cvx)
    THEN IF asserts /\ ~DegIsLinear(deg) THEN "AssertionError" ELSE "linear"
    ELSE IF DegIsQuadratic(deg) THEN "quadratic"
    ELSE IF DegIsPolynomial(deg) THEN "polynomial"
    ELSE "nonlinear"

\* Objective entries a ModelInformation may be built with.
ObjectiveEntries ==
    [sense : {"min"}, convexity : Convexities, polynomial_degree : Degrees,
     lower_bound : {"None"}, upper_bound : {"None"}]

\* A ModelInformation of any objectives, as its constructor accepts it.
InitInfo ==
    /\ report \in {[name |-> "problem", variables |-> EmptyDict, objectives |-> os,
                     constraints |-> EmptyDict] :
                        os \in UNION {[ks -> ObjectiveEntries] : ks \in SUBSET {"obj", "obj2"}}}
    /\ last = NoCall
    /\ problem = CHOOSE pr \in Problems : TRUE
    /\ max_iter = 0
    /\ pc = "idle"
    /\ i = 0
    /\ bound = EmptyDict
    /\ convexity = EmptyDict
    /\ polynomial = EmptyDict
    /\ changes_prop = NoChanges
    /\ changes_tigh = NoChanges
    /\ warnings = <<>>
    /\ roundLog = <<>>
    /\ beforeProp = EmptyDict
    /\ steps = 0
    /\ calls = <<>>
    /\ writes = <<>>
    /\ lookup = <<>>
    /\ allow_missing = FALSE
    /\ vctx = EmptyDict

\* info.objtype(): the dict of the types of all objectives, or the
\* AssertionError of the first entry that fails.
CallObjtype ==
    /\ last.op = "none"
    /\ \E asserts \in BOOLEAN :
        LET types == [k \in DOMAIN report.objectives |->
                         ObjType(report.objectives[k].convexity,
                                 report.objectives[k].polynomial_degree, asserts)]
            raised == \E k \in DOMAIN types : types[k] = "AssertionError"
        IN last' = [op |-> "objtype", asserts |-> asserts, raised |-> raised,
                    result |-> IF raised THEN None ELSE Value(types)]
    /\ UNCHANGED <<lookup, allow_missing, vctx>>
    /\ UNCHANGED runVars

NextInfo == CallObjtype

SpecInfo == InitInfo /\ [][NextInfo]_vars

\* ------------------------------------------------------------- claims
AfterLoop == pc \in {"degree", "convexity", "summary", "done"}

InLoop == pc \in {"loop", "propagate", "tighten"}

RoundConverged(r) == r.prop = {} /\ r.tigh = {}

\* C1: the bound loop runs at most max_iter rounds; it goes on after every round
\* in which propagate or tighten reported a change (while rounds remain), and
\* it stops before the cap exactly after the first round in which both
\* reported an empty change set.
C1_LoopStopsAtFirstEmptyRound ==
    /\ Len(roundLog) <= max_iter
    /\ \A k \in 1..(Len(roundLog) - 1) : ~RoundConverged(roundLog[k])
    /\ InLoop => \A k \in 1..Len(roundLog) : ~RoundConverged(roundLog[k])
    /\ (AfterLoop /\ Len(roundLog) < max_iter) =>
            /\ Len(roundLog) >= 1
            /\ RoundConverged(roundLog[Len(roundLog)])

\* C1 witness: the loop stopped before the cap, after a round later than the first.
C1_Witness ==
    /\ pc = "done"
    /\ Len(roundLog) >= 2
    /\ Len(roundLog) < max_iter
    /\ RoundConverged(roundLog[Len(roundLog)])

\* First half of C2: bounds at the end of successive rounds only shrink.
RoundMonotone ==
    \A k \in 1..(Len(roundLog) - 1) : \A n \in DOMAIN roundLog[k].bound :
        IsSubset(roundLog[k + 1].bound[n], roundLog[k].bound[n])

\* Second half of C2: a bound stored by the forward visitor for a node that had
\* a bound is never wider than the bound it replaces.
ForwardNeverWidens ==
    pc = "tighten" => \A n \in DOMAIN beforeProp : IsSubset(bound[n], beforeProp[n])

\* C2: monotonic shrink: for every node the bound after round i+1 is a subset of
\* the bound after round i, and a bound the forward visitor stores over an
\* existing bound is never wider than that existing bound.
C2_MonotonicShrink == RoundMonotone /\ ForwardNeverWidens

\* Steps a run of detect_special_structure with max_iter = n takes at most:
\* initialize, three per round (loop test, propagate, tighten), the final loop
\* test, and the degree pass, the convexity pass and the summary.
StepBound(n) == 3 * n + 5

\* The positions of detect_special_structure; each but "done" has exactly one
\* action, enabled whenever control is there.  An exception leaves them.
Positions == {"start", "loop", "propagate", "tighten", "degree", "convexity", "summary", "done"}

\* C3: for every max_iter >= 0 the run leaves the bound loop after finitely
\* many rounds without signalling an error (control never leaves the function's
\* positions, and the run takes a bounded number of steps), and when it
\* returns it has run the degree and the convexity pass and built a report.
C3_Terminates ==
    /\ pc \in Positions
    /\ steps <= StepBound(max_iter)
    /\ Len(roundLog) <= max_iter
    /\ pc = "done" =>
            /\ report.name # "None"
            /\ DOMAIN polynomial = Nodes
            /\ DOMAIN convexity = Nodes

\* C3 witness: a report returned after the cap was reached with changes
\* reported in every round.
C3_Witness ==
    /\ pc = "done"
    /\ max_iter >= 2
    /\ Len(roundLog) = max_iter
    /\ \A k \in 1..Len(roundLog) : ~RoundConverged(roundLog[k])

SomeCrossed == \E n \in DOMAIN bound : IsCrossed(bound[n])

\* A report entry carries an infeasibility indication.
MarkedInfeasible(entry) == "infeasible" \in DOMAIN entry

\* C5: when a bound is crossed (lower > upper) the report returned marks the
\* owning constraint and objective as infeasible, and no crossed bound is
\* reported as an ordinary bound without such a mark.
C5_InfeasibilityReported ==
    (pc = "done" /\ SomeCrossed) =>
        /\ IsCrossed(bound[C]) => MarkedInfeasible(report.constraints["cons"])
        /\ \A k \in DOMAIN report.variables :
               report.variables[k].lower_bound > report.variables[k].upper_bound
                   => MarkedInfeasible(report.variables[k])
        /\ IsCrossed(bound[O]) => MarkedInfeasible(report.objectives["obj"])

\* A dispatch or visitor call has been made.
Called == last.op # "none"

\* The kind of the node of the last call.
LastKind == VisitKind(last.expr)

\* Some registered kind is a proper supertype of kind k.
SuperRegistered(k) == SuperTypes(k) \cap Registered(lookup) # {}

\* The most specific registered proper supertype of kind k.
MostSpecific(k) ==
    CHOOSE t \in SuperTypes(k) \cap Registered(lookup) :
        \A u \in SuperTypes(k) \cap Registered(lookup) : IsInstance(t, u)

\* C6: when a handler is registered for the exact kind of the node, dispatch
\* and visit invoke that handler, exactly once, and no other, whatever is
\* registered for its supertypes and in whatever order.
C6_ExactKindFirst ==
    (Called /\ LastKind \in Registered(lookup)) =>
        /\ last.invoked = <<LastKind>>
        /\ last.op = "dispatch" => ~last.raised

\* C6 witness: a dispatch on a node whose exact kind is registered after one
\* of its supertypes.
C6_Witness ==
    /\ last.op = "dispatch"
    /\ LastKind \in Registered(lookup)
    /\ lookup[1] \in SuperTypes(LastKind)

\* C7: without an exact handler, dispatch and visit invoke the handler of the
\* most specific registered supertype, whatever the registration order.
C7_MostSpecificSupertype ==
    (Called /\ LastKind \notin Registered(lookup) /\ SuperRegistered(LastKind)) =>
        last.invoked = <<MostSpecific(LastKind)>>

\* Some registered handler applies to kind k (exactly or as a supertype).
HandlerApplies(k) == \E t \in Registered(lookup) : IsInstance(k, t)

\* C8: when no handler applies, dispatch invokes nothing and returns None if
\* allow_missing is set, and raises if it is not; it never raises when a
\* handler applies.
C8_MissingHandlerPolicy ==
    last.op = "dispatch" =>
        /\ HandlerApplies(LastKind) => ~last.raised
        /\ ~HandlerApplies(LastKind) =>
              /\ last.invoked = <<>>
              /\ last.raised = ~allow_missing
              /\ allow_missing => last.result.tag = "None"

\* C8 witness: no handler applies although handlers are registered, and
\* allow_missing is set.
C8_Witness ==
    /\ last.op = "dispatch"
    /\ lookup # <<>>
    /\ ~HandlerApplies(LastKind)
    /\ allow_missing
    /\ ~last.raised

\* Node m has the same entry, or the same absence of one, in contexts a and b.
SameEntry(a, b, m) ==
    /\ m \in DOMAIN a <=> m \in DOMAIN b
    /\ m \in DOMAIN a => a[m] = b[m]

\* C9: a forward visitor call stores the handler's value under the node itself
\* iff the handler produced one; on None it writes nothing; in both cases no
\* entry of another node changes.
C9_ForwardStoresOwnNode ==
    last.op = "forward" =>
        /\ last.result.tag # "None" =>
              /\ last.expr \in DOMAIN vctx
              /\ vctx[last.expr] = last.result.value
        /\ last.result.tag = "None" => SameEntry(vctx, last.before, last.expr)
        /\ \A m \in VisitNodes \ {last.expr} : SameEntry(vctx, last.before, m)

\* C9 witness: a value stored over a different one while another node has an entry.
C9_Witness ==
    /\ last.op = "forward"
    /\ last.result.tag = "value"
    /\ last.expr \in DOMAIN last.before
    /\ last.before[last.expr] # last.result.value
    /\ \E m \in DOMAIN last.before : m # last.expr

\* Occurrences of e in sequence q.
Count(q, e) == Cardinality({j \in 1..Len(q) : q[j] = e})

\* C10: for a mapping returned by the backward handler the merge callback is
\* called exactly once per entry and for nothing else, and the context
\* afterwards is the one those merge calls produce: the visitor writes no
\* value of the mapping itself.
C10_BackwardMergesEachEntry ==
    (last.op = "backward" /\ last.result.tag = "dict") =>
        /\ ~last.raised
        /\ Len(last.merges) = Len(last.result.items)
        /\ \A j \in 1..Len(last.result.items) :
               Count(last.merges, last.result.items[j]) = 1
        /\ vctx = MergeItems(last.before, last.merges, 1)
        /\ last.result.items = <<>> => vctx = last.before

\* C10 witness: a mapping of two entries, one for a node whose bound in the
\* context differs from the merged one.
C10_Witness ==
    /\ last.op = "backward"
    /\ last.result.tag = "dict"
    /\ Len(last.result.items) = 2
    /\ \E j \in 1..2 :
          LET k == last.result.items[j][1]
          IN /\ k \in DOMAIN last.before
             /\ vctx[k] # last.result.items[j][2]
             /\ vctx[k] # last.before[k]

\* C11: a backward handler result that is neither None nor a mapping makes the
\* call raise, with no merge call made and the context left as it was; a result
\* that is None or a mapping never makes it raise.
C11_MalformedBackwardResult ==
    last.op = "backward" =>
        /\ last.result.tag = "value" =>
              /\ last.raised
              /\ last.merges = <<>>
              /\ vctx = last.before
        /\ last.result.tag \in {"None", "dict"} => ~last.raised

\* C11 witness: a handler was invoked on a non-empty context and returned a
\* plain value.
C11_Witness ==
    /\ last.op = "backward"
    /\ last.invoked # <<>>
    /\ last.result.tag = "value"
    /\ last.before # EmptyDict
    /\ last.raised

\* C19: a forward or backward visitor called on a node to which no registered
\* handler applies invokes nothing, returns None, does not raise, makes no
\* merge call and leaves the context as it was, whatever allow_missing would
\* tell a Dispatcher.
C19_VisitorMissingHandler ==
    (last.op \in {"forward", "backward"} /\ ~HandlerApplies(LastKind)) =>
        /\ last.invoked = <<>>
        /\ last.result.tag = "None"
        /\ ~last.raised
        /\ last.merges = <<>>
        /\ vctx = last.before

\* C19 witness: handlers are registered, none applies to the node visited
\* backward, the context holds entries, and a Dispatcher with the same table
\* would raise.
C19_Witness ==
    /\ last.op = "backward"
    /\ lookup # <<>>
    /\ ~HandlerApplies(LastKind)
    /\ ~allow_missing
    /\ last.before # EmptyDict
    /\ ~last.raised

\* Positions in calls of the calls of pass op.
CallsOf(op) == {j \in 1..Len(calls) : calls[j].op = op}

\* Every call of pass a precedes every call of pass b.
AllBefore(a, b) == \A j \in CallsOf(a), k \in CallsOf(b) : j < k

\* Every call of pass b has a call of pass a before it.
Preceded(a, b) == \A k \in CallsOf(b) : \E j \in CallsOf(a) : j < k

\* C12: bounds are initialized exactly once and before any other pass; every
\* propagate and tighten precedes degree inference; degree inference precedes
\* convexity inference, which never runs without it; the report is assembled
\* only after convexity inference; a finished run has made each of the four
\* calls exactly once.
C12_PhaseOrdering ==
    /\ Cardinality(CallsOf("initialize")) <= 1
    /\ calls # <<>> => calls[1].op = "initialize"
    /\ AllBefore("propagate", "degree") /\ AllBefore("tighten", "degree")
    /\ AllBefore("degree", "convexity") /\ Preceded("degree", "convexity")
    /\ AllBefore("convexity", "summary") /\ Preceded("convexity", "summary")
    /\ report # NoReport => CallsOf("summary") # {}
    /\ pc = "done" =>
          \A op \in {"initialize", "degree", "convexity", "summary"} :
              Cardinality(CallsOf(op)) = 1

\* C12 witness: a finished run of at least two rounds.
C12_Witness ==
    /\ pc = "done"
    /\ report # NoReport
    /\ Cardinality(CallsOf("propagate")) >= 2
    /\ Cardinality(CallsOf("tighten")) >= 2

\* C18: in the bound loop a tighten call directly follows a propagate call and
\* is handed the change set that call returned; a propagate call directly
\* follows either initialization, and is then handed None, or a tighten call,
\* and is then handed the change set that call returned; outside a round the
\* two passes have been called equally often, and never when max_iter is 0.
C18_ChangeSetHandOff ==
    /\ \A j \in CallsOf("tighten") :
           /\ j > 1
           /\ calls[j - 1].op = "propagate"
           /\ calls[j].arg = Changes(calls[j - 1].ret)
    /\ \A j \in CallsOf("propagate") :
           /\ j > 1
           /\ \/ calls[j - 1].op = "initialize" /\ calls[j].arg = NoChanges
              \/ calls[j - 1].op = "tighten" /\ calls[j].arg = Changes(calls[j - 1].ret)
    /\ Cardinality(CallsOf("propagate")) =
           Cardinality(CallsOf("tighten")) + (IF pc = "tighten" THEN 1 ELSE 0)
    /\ max_iter = 0 => CallsOf("propagate") = {} /\ CallsOf("tighten") = {}

\* C18 witness: a finished run in which a later propagate was handed a
\* non-empty change set different from the one the propagate before it returned.
C18_Witness ==
    /\ pc = "done"
    /\ \E j \in CallsOf("propagate") :
          /\ j > 2
          /\ calls[j].arg.nodes # {}
          /\ calls[j].arg.nodes # calls[j - 2].ret

\* C16: the step that assembles the report leaves ctx.bound, ctx.convexity,
\* the degree map and the problem exactly as convexity inference left them,
\* also when an objective has no bound entry.
C16_SummaryPureRead ==
    [][pc = "summary" =>
          /\ bound' = bound
          /\ convexity' = convexity
          /\ polynomial' = polynomial
          /\ problem' = problem]_vars

\* C16 witness: a report whose objective has an absent bound, from a context
\* with no bound entry for it.
C16_Witness ==
    /\ pc = "done"
    /\ O \notin DOMAIN bound
    /\ \E k \in DOMAIN report.objectives : report.objectives[k].lower_bound = "None"

\* Positions in items of the entries named n.
Occurrences(items, n) == {j \in 1..Len(items) : items[j].name = n}

\* Names carried by more than one entry of items.
Repeated(items) ==
    {items[j].name : j \in {k \in 1..Len(items) : Cardinality(Occurrences(items, items[k].name)) > 1}}

\* The first entry of items named n, in iteration order.
FirstNamed(items, n) ==
    items[CHOOSE j \in Occurrences(items, n) : \A k \in Occurrences(items, n) : j <= k]

\* C13: for a name carried by several variables, or by several objectives, the
\* report's entry under that name is the one built from the first of them in
\* iteration order (a variable entry tells its variable by the name field, an
\* objective entry by its sense; the constraints of the arena are a single one).
C13_FirstOccurrenceWins ==
    pc = "done" =>
        /\ \A n \in Repeated(problem.variables) :
               /\ n \in DOMAIN report.variables
               /\ report.variables[n].name = FirstNamed(problem.variables, n).key
        /\ \A n \in Repeated(problem.objectives) :
               /\ n \in DOMAIN report.objectives
               /\ report.objectives[n].sense =
                      (IF FirstNamed(problem.objectives, n).minimizing THEN "min" ELSE "max")

\* The entries of the problem a warning of the given kind is about.
ItemsWarned(kind) ==
    CASE kind = "Duplicate variable" -> problem.variables
      [] kind = "Duplicate objective" -> problem.objectives
      [] kind = "Duplicate constraint" -> problem.constraints

\* C14: in a finished run every store of the summary loops under a key that
\* already held an entry was made after that iteration warned about that very
\* name; the run returned its report whatever was warned; and every duplicate
\* warning names a name carried by more than one entry of its mapping.
C14_DuplicatesSurfaced ==
    pc = "done" =>
        /\ \A j \in 1..Len(writes) :
               writes[j].overwrote => (writes[j].warned /\ writes[j].tested = writes[j].key)
        /\ report # NoReport
        /\ \A k \in 1..Len(warnings) :
               warnings[k][2] \in Repeated(ItemsWarned(warnings[k][1]))

\* Keys under which the entries of items are registered in the problem.
Keys(items) == {items[j].key : j \in 1..Len(items)}

\* C20: the report's variables, objectives and constraints mappings have
\* exactly the keys of problem.variables, problem.objectives and
\* problem.constraints, whatever names the entries carry, so the counts of the
\* report are the counts of the problem.
C20_ReportKeysAreProblemKeys ==
    pc = "done" =>
        /\ DOMAIN report.variables = Keys(problem.variables)
        /\ DOMAIN report.objectives = Keys(problem.objectives)
        /\ DOMAIN report.constraints = Keys(problem.constraints)
        /\ Cardinality(DOMAIN report.variables) = Len(problem.variables)
        /\ Cardinality(DOMAIN report.objectives) = Len(problem.objectives)
        /\ Cardinality(DOMAIN report.constraints) = Len(problem.constraints)

\* C15: objtype never fails, and the type it returns for each objective is
\* linear for linear convexity with degree 1, else quadratic for degree 2, else
\* polynomial for a finite degree above 2, else nonlinear.
C15_ObjtypeTotal ==
    last.op = "objtype" =>
        /\ ~last.raised
        /\ \A k \in DOMAIN report.objectives :
               LET cvx == report.objectives[k].convexity
                   deg == report.objectives[k].polynomial_degree
               IN last.result.value[k] =
                      (IF cvx = "linear" /\ deg = 1 THEN "linear"
                       ELSE IF deg = 2 THEN "quadratic"
                       ELSE IF deg > 2 /\ deg # NonPolynomial THEN "polynomial"
                       ELSE "nonlinear")

\* C17: after a Sqrt, Log, Asin or Acos root was visited with the
\* initialization visitor, by visitor.visit(root, ctx) or by visitor(root, ctx),
\* the context holds under the root's child, which had no bound before, a
\* nonnegative bound for Sqrt and Log and the bound [-1, 1] for Asin and Acos.
C17_InitializationSeedsChild ==
    (last.op \in {"visit", "call"} /\ last.child \notin DOMAIN last.before) =>
        /\ last.child \in DOMAIN vctx
        /\ last.kind \in {"Sqrt", "Log"} => vctx[last.child].lower_bound >= 0
        /\ last.kind \in {"Asin", "Acos"} => vctx[last.child] = Bound(-1, 1)

====
